---- MODULE Spec2Model ----
(***************************************************************************)
(* A model of Project/todo_list.py: the Task entity and the TodoList       *)
(* manager with its optional JSON snapshot, driven by an external caller   *)
(* (the CLI of main, or the behave steps).                                 *)
(*                                                                         *)
(* Strings are sequences of one-character strings.  A datetime is a record *)
(* [sec, us]; its ISO-8601 text is the sequence of its printed fields,     *)
(* where datetime.isoformat leaves the fraction out when it is zero.  An   *)
(* Optional value is <<>> (None) or <<v>>.                                 *)
(***************************************************************************)
EXTENDS Integers, Sequences, FiniteSets

(* ------------------------------ bounds --------------------------------- *)

\* the largest id add_task may hand out in one run of the model
MaxId == 3

\* the longest title the caller passes
MaxTitleLen == 2

\* the clock runs over seconds 0..MaxSec and microseconds 0..MaxMicro
MaxSec == 0

MaxMicro == 1

\* how many times the caller changes a list that list_tasks returned
MaxCallerEdits == 1

(* ------------------------------ values --------------------------------- *)

None == <<>>

Some(v) == <<v>>

Chars == {" ", "a"}

RECURSIVE StringsUpTo(_)
StringsUpTo(n) ==
    IF n = 0 THEN {<<>>}
    ELSE LET shorter == StringsUpTo(n - 1)
         IN  shorter \cup {Append(s, c) : s \in {t \in shorter : Len(t) = n - 1}, c \in Chars}

Titles == StringsUpTo(MaxTitleLen)

TaskIds == 1..(MaxId + 1)

Datetimes == [sec : 0..MaxSec, us : 0..MaxMicro]

\* d1 is strictly earlier than d2
Earlier(d1, d2) == d1.sec < d2.sec \/ (d1.sec = d2.sec /\ d1.us < d2.us)

(* ------------------------------ str.strip ------------------------------ *)

isspace(c) == c = " "

RECURSIVE lstrip(_)
lstrip(s) ==
    IF s = <<>> THEN s
    ELSE IF isspace(Head(s)) THEN lstrip(Tail(s)) ELSE s

RECURSIVE rstrip(_)
rstrip(s) ==
    IF s = <<>> THEN s
    ELSE IF isspace(s[Len(s)]) THEN rstrip(SubSeq(s, 1, Len(s) - 1)) ELSE s

\* a trim of the right end only
strip_right_only(s) == rstrip(s)

\* a trim of the left end only
strip_left_only(s) == lstrip(s)

strip(s) == rstrip(lstrip(s))

(* --------------------- datetime <-> ISO-8601 text ---------------------- *)

\* datetime.isoformat(): "....:SS" when microsecond is 0, else "....:SS.ffffff"
isoformat(d) == IF d.us = 0 THEN <<d.sec>> ELSE <<d.sec, d.us>>

\* a parser that reads the seconds and forgets the fraction
fromisoformat_drops_fraction(s) == [sec |-> s[1], us |-> 0]

\* datetime.fromisoformat(): a missing fraction reads as microsecond 0
fromisoformat(s) ==
    IF Len(s) = 1 THEN [sec |-> s[1], us |-> 0] ELSE [sec |-> s[1], us |-> s[2]]

(* ------------------------------- JSON ---------------------------------- *)

JNull == <<"null">>

JNumber(n) == <<"number", n>>

JString(s) == <<"string", s>>

\* json.dumps of one task dict: int -> number, str -> string, None -> null
json_dumps_item(d) ==
    [id           |-> JNumber(d.id),
     title        |-> JString(d.title),
     status       |-> JString(d.status),
     created_at   |-> JString(d.created_at),
     completed_at |-> IF d.completed_at = None THEN JNull
                      ELSE JString(d.completed_at[1])]

json_dumps(payload) == [i \in 1..Len(payload) |-> json_dumps_item(payload[i])]

\* json.loads of one object of the document
json_loads_item(j) ==
    [id           |-> j.id[2],
     title        |-> j.title[2],
     status       |-> j.status[2],
     created_at   |-> j.created_at[2],
     completed_at |-> IF j.completed_at[1] = "null" THEN None
                      ELSE Some(j.completed_at[2])]

json_loads(doc) == [i \in 1..Len(doc) |-> json_loads_item(doc[i])]

(* ------------------------------- Task ---------------------------------- *)

\* Task(id=..., title=...) with the dataclass defaults, built at clock value clk
Task(id, title, clk) ==
    [id |-> id, title |-> title, status |-> "pending",
     created_at |-> clk, completed_at |-> None]

\* a completion that stamps created_at as well
Task_mark_completed_restamps_created(t, clk) ==
    [t EXCEPT !.status = "completed", !.completed_at = Some(clk), !.created_at = clk]

\* a completion that flips the status instead of setting it
Task_mark_completed_toggles(t, clk) ==
    [t EXCEPT !.status = IF t.status = "completed" THEN "pending" ELSE "completed",
              !.completed_at = Some(clk)]

Task_mark_completed(t, clk) ==
    [t EXCEPT !.status = "completed", !.completed_at = Some(clk)]

Task_to_dict(t) ==
    [id           |-> t.id,
     title        |-> t.title,
     status       |-> t.status,
     created_at   |-> isoformat(t.created_at),
     completed_at |-> IF t.completed_at # None
                      THEN Some(isoformat(t.completed_at[1]))
                      ELSE None]

\* truth value of data.get("completed_at"): None and "" are false
Truthy(optstr) == optstr # None /\ Len(optstr[1]) > 0

\* a reader that gives every task the default status
Task_from_dict_forgets_status(data) ==
    [id           |-> data.id,
     title        |-> data.title,
     status       |-> "pending",
     created_at   |-> fromisoformat(data.created_at),
     completed_at |-> IF Truthy(data.completed_at)
                      THEN Some(fromisoformat(data.completed_at[1]))
                      ELSE None]

Task_from_dict(data) ==
    [id           |-> data.id,
     title        |-> data.title,
     status       |-> data.status,
     created_at   |-> fromisoformat(data.created_at),
     completed_at |-> IF Truthy(data.completed_at)
                      THEN Some(fromisoformat(data.completed_at[1]))
                      ELSE None]

(* ------------------------------ TodoList ------------------------------- *)

VARIABLES
    storage_path,       \* self.storage_path: None or Some(path)
    tasks,              \* self._tasks
    next_id,            \* self._next_id
    store,              \* the file at storage_path: [exists, doc]
    now,                \* the value datetime.utcnow() returns
    result,             \* how the last call ended: [op, err, msg, id]
    returned,           \* the list the caller holds from list_tasks, if any
    issued,             \* the ids add_task has handed out for this list so far
    add_count,          \* successful add_task calls on this instance
    constructed_empty,  \* this instance started with no tasks
    seen_max,           \* the largest id this instance has loaded or handed out
    write_pos           \* None, or Some(k): the file is open for writing and
                        \* holds only the first k items of store.doc

vars == <<storage_path, tasks, next_id, store, now, result, returned,
          issued, add_count, constructed_empty, seen_max, write_pos>>

Path == Some("todo_data.json")

Absent == [exists |-> FALSE, doc |-> <<>>]

File(doc) == [exists |-> TRUE, doc |-> doc]

\* a counter taken from the last task, as if the file were sorted by id
max_id_of_last(ts) == IF ts = <<>> THEN 0 ELSE ts[Len(ts)].id

\* a counter taken from the number of tasks instead of the largest id
max_id_counts(ts) == Len(ts)

RECURSIVE max_id(_)
\* max((t.id for t in tasks), default=0)
max_id(ts) ==
    IF ts = <<>> THEN 0
    ELSE LET m == max_id(Tail(ts))
         IN  IF Head(ts).id > m THEN Head(ts).id ELSE m

\* _load: the tasks and the counter a new instance starts with
TodoList_load(path, st) ==
    IF path = None \/ ~st.exists
    THEN [tasks |-> <<>>, next_id |-> 1]
    ELSE LET raw == json_loads(st.doc)
             ts  == [i \in 1..Len(raw) |-> Task_from_dict(raw[i])]
         IN  [tasks |-> ts, next_id |-> max_id(ts) + 1]

\* a save that leaves the file alone when there is nothing to write
TodoList_save_skips_empty(path, ts, st) ==
    IF path = None \/ ts = <<>> THEN st
    ELSE File(json_dumps([i \in 1..Len(ts) |-> Task_to_dict(ts[i])]))

\* _save: the file after the call
TodoList_save(path, ts, st) ==
    IF path = None THEN st
    ELSE File(json_dumps([i \in 1..Len(ts) |-> Task_to_dict(ts[i])]))

\* the test `not title`, which lets a title of spaces through
title_is_blank_unstripped(title) == Len(title) = 0

\* the test `not title.strip()` of add_task and update_task
title_is_blank(title) == Len(strip(title)) = 0

RECURSIVE find_from(_, _, _)
find_from(ts, task_id, i) ==
    IF i > Len(ts) THEN 0
    ELSE IF ts[i].id = task_id THEN i ELSE find_from(ts, task_id, i + 1)

\* a lookup that falls out of its loop with the last task instead of raising
TodoList_find_task_by_id_falls_through(ts, task_id) ==
    IF find_from(ts, task_id, 1) = 0 THEN Len(ts) ELSE find_from(ts, task_id, 1)

\* _find_task_by_id: the position of the first task with that id, 0 when it raises
TodoList_find_task_by_id(ts, task_id) == find_from(ts, task_id, 1)

\* `return self._tasks`: the caller is handed the manager's own list
list_tasks_value_same_list(ts) == [items |-> ts, same_object |-> TRUE]

\* list(self._tasks): a new list object holding the same elements
list_tasks_value(ts) == [items |-> ts, same_object |-> FALSE]

\* how a call ended: the exception class and message, or the id of the task it returned
Ok(op, id) == [op |-> op, err |-> "none", msg |-> "", id |-> id]

EmptyTitle(op) ==
    [op |-> op, err |-> "ValueError", msg |-> "Task title cannot be empty", id |-> 0]

\* the message names the id that was asked for: it is kept in the id field
NotFound(op, task_id) ==
    [op |-> op, err |-> "ValueError", msg |-> "Task with id not found", id |-> task_id]

Init ==
    /\ storage_path \in {None, Path}
    /\ tasks = <<>>
    /\ next_id = 1
    /\ store = Absent
    /\ now = [sec |-> 0, us |-> 0]
    /\ result = Ok("init", 0)
    /\ returned = None
    /\ issued = {}
    /\ add_count = 0
    /\ constructed_empty = TRUE
    /\ seen_max = 0
    /\ write_pos = None

\* TodoList(storage_path) again: a new process of the CLI, or a new test scenario
construct ==
    LET loaded == TodoList_load(storage_path, store)
    IN  /\ tasks' = loaded.tasks
        /\ next_id' = loaded.next_id
        /\ result' = Ok("init", 0)
        /\ returned' = None
        /\ issued' = IF storage_path = None THEN {} ELSE issued
        /\ add_count' = 0
        /\ constructed_empty' = (loaded.tasks = <<>>)
        /\ seen_max' = max_id(loaded.tasks)
        /\ UNCHANGED <<storage_path, store, now>>

add_task(title) ==
    IF title_is_blank(title)
    THEN /\ result' = EmptyTitle("add_task")
         /\ returned' = None
         /\ UNCHANGED <<storage_path, tasks, next_id, store, now, issued,
                        add_count, constructed_empty, seen_max>>
    ELSE /\ next_id <= MaxId
         /\ tasks' = Append(tasks, Task(next_id, strip(title), now))
         /\ next_id' = next_id + 1
         /\ store' = TodoList_save(storage_path, tasks', store)
         /\ result' = Ok("add_task", next_id)
         /\ returned' = None
         /\ issued' = issued \cup {next_id}
         /\ add_count' = add_count + 1
         /\ seen_max' = IF next_id > seen_max THEN next_id ELSE seen_max
         /\ UNCHANGED <<storage_path, now, constructed_empty>>

list_tasks ==
    /\ returned' = Some([list |-> list_tasks_value(tasks), edits |-> 0])
    /\ result' = Ok("list_tasks", 0)
    /\ UNCHANGED <<storage_path, tasks, next_id, store, now, issued,
                   add_count, constructed_empty, seen_max>>

mark_completed(task_id) ==
    LET i == TodoList_find_task_by_id(tasks, task_id)
    IN  IF i = 0
        THEN /\ result' = NotFound("mark_completed", task_id)
             /\ returned' = None
             /\ UNCHANGED <<storage_path, tasks, next_id, store, now, issued,
                            add_count, constructed_empty, seen_max>>
        ELSE /\ tasks' = [tasks EXCEPT ![i] = Task_mark_completed(tasks[i], now)]
             /\ store' = TodoList_save(storage_path, tasks', store)
             /\ result' = Ok("mark_completed", tasks[i].id)
             /\ returned' = None
             /\ UNCHANGED <<storage_path, next_id, now, issued,
                            add_count, constructed_empty, seen_max>>

\* a clear that forgets to write the file
clear_without_save ==
    /\ tasks' = <<>>
    /\ result' = Ok("clear", 0)
    /\ returned' = None
    /\ UNCHANGED <<storage_path, next_id, store, now, issued, add_count,
                   constructed_empty, seen_max>>

\* a clear that also starts the ids over
clear_resets_counter ==
    /\ tasks' = <<>>
    /\ next_id' = 1
    /\ store' = TodoList_save(storage_path, tasks', store)
    /\ result' = Ok("clear", 0)
    /\ returned' = None
    /\ UNCHANGED <<storage_path, now, issued, add_count, constructed_empty, seen_max>>

clear ==
    /\ tasks' = <<>>
    /\ store' = TodoList_save(storage_path, tasks', store)
    /\ result' = Ok("clear", 0)
    /\ returned' = None
    /\ UNCHANGED <<storage_path, next_id, now, issued, add_count,
                   constructed_empty, seen_max>>

update_task(task_id, title) ==
    IF title_is_blank(title)
    THEN /\ result' = EmptyTitle("update_task")
         /\ returned' = None
         /\ UNCHANGED <<storage_path, tasks, next_id, store, now, issued,
                        add_count, constructed_empty, seen_max>>
    ELSE LET i == TodoList_find_task_by_id(tasks, task_id)
         IN  IF i = 0
             THEN /\ result' = NotFound("update_task", task_id)
                  /\ returned' = None
                  /\ UNCHANGED <<storage_path, tasks, next_id, store, now, issued,
                                 add_count, constructed_empty, seen_max>>
             ELSE /\ tasks' = [tasks EXCEPT ![i].title = strip(title)]
                  /\ store' = TodoList_save(storage_path, tasks', store)
                  /\ result' = Ok("update_task", tasks[i].id)
                  /\ returned' = None
                  /\ UNCHANGED <<storage_path, next_id, now, issued,
                                 add_count, constructed_empty, seen_max>>

(* ------------------------- the caller's own list ----------------------- *)

\* a Task object the caller made itself
ForeignTask == Task(0, <<"a">>, [sec |-> 0, us |-> 0])

RemoveAt(s, i) == SubSeq(s, 1, i - 1) \o SubSeq(s, i + 1, Len(s))

Reverse(s) == [i \in 1..Len(s) |-> s[Len(s) + 1 - i]]

\* what one list operation of the caller can turn the list into
ListEdits(s) ==
    {Append(s, ForeignTask), Reverse(s)}
        \cup {RemoveAt(s, i) : i \in 1..Len(s)}
        \cup {[s EXCEPT ![i] = ForeignTask] : i \in 1..Len(s)}

\* the caller appends to, removes from, reorders or overwrites the list it was
\* given; a list that is the manager's own object changes the manager
caller_edits_list ==
    /\ returned # None
    /\ returned[1].edits < MaxCallerEdits
    /\ \E new \in ListEdits(returned[1].list.items) :
          /\ new # returned[1].list.items
          /\ returned' = Some([list  |-> [returned[1].list EXCEPT !.items = new],
                               edits |-> returned[1].edits + 1])
          /\ tasks' = IF returned[1].list.same_object THEN new ELSE tasks
    /\ UNCHANGED <<storage_path, next_id, store, now, result, issued,
                   add_count, constructed_empty, seen_max>>

\* time passes
tick ==
    /\ \E d \in Datetimes : Earlier(now, d) /\ now' = d
    /\ UNCHANGED <<storage_path, tasks, next_id, store, result, returned,
                   issued, add_count, constructed_empty, seen_max>>

\* every write of the file is one step: the file is never seen half written
Next ==
    \/ construct /\ UNCHANGED write_pos
    \/ (\E title \in Titles : add_task(title)) /\ UNCHANGED write_pos
    \/ list_tasks /\ UNCHANGED write_pos
    \/ (\E task_id \in TaskIds : mark_completed(task_id)) /\ UNCHANGED write_pos
    \/ clear /\ UNCHANGED write_pos
    \/ (\E task_id \in TaskIds, title \in Titles : update_task(task_id, title))
          /\ UNCHANGED write_pos
    \/ caller_edits_list /\ UNCHANGED write_pos
    \/ tick /\ UNCHANGED write_pos

Spec == Init /\ [][Next]_vars

(* ------------------- the manager without its caller's list ------------ *)

\* the operations of TodoList that write the manager, with construction and
\* the clock; list_tasks and the caller's edits of its copy are left out
NextManager ==
    \/ construct /\ UNCHANGED write_pos
    \/ (\E title \in Titles : add_task(title)) /\ UNCHANGED write_pos
    \/ (\E task_id \in TaskIds : mark_completed(task_id)) /\ UNCHANGED write_pos
    \/ clear /\ UNCHANGED write_pos
    \/ (\E task_id \in TaskIds, title \in Titles : update_task(task_id, title))
          /\ UNCHANGED write_pos
    \/ tick /\ UNCHANGED write_pos

SpecManager == Init /\ [][NextManager]_vars

(* ---------------------- a list built from a snapshot ------------------- *)

\* the id columns a snapshot can hold: distinct ids in any order
StoredIdSeqs ==
    {<<>>} \cup UNION {{q \in [1..n -> 1..MaxId] :
                          \A i, j \in 1..n : i # j => q[i] # q[j]} : n \in 1..MaxId}

StoredTask(id) == Task(id, <<"a">>, [sec |-> 0, us |-> 0])

\* no file, or a file written for the tasks with the ids of q
StoredFiles ==
    {Absent} \cup
    {File(json_dumps([i \in 1..Len(q) |-> Task_to_dict(StoredTask(q[i]))])) :
        q \in StoredIdSeqs}

\* TodoList(storage_path) on a file that is already there
InitLoad ==
    /\ storage_path = Path
    /\ store \in StoredFiles
    /\ tasks = TodoList_load(storage_path, store).tasks
    /\ next_id = TodoList_load(storage_path, store).next_id
    /\ now = [sec |-> 0, us |-> 0]
    /\ result = Ok("init", 0)
    /\ returned = None
    /\ issued = {tasks[i].id : i \in 1..Len(tasks)}
    /\ add_count = 0
    /\ constructed_empty = (tasks = <<>>)
    /\ seen_max = max_id(tasks)
    /\ write_pos = None

NextLoad ==
    \/ construct /\ UNCHANGED write_pos
    \/ (\E title \in Titles : add_task(title)) /\ UNCHANGED write_pos
    \/ (\E task_id \in TaskIds : mark_completed(task_id)) /\ UNCHANGED write_pos
    \/ tick /\ UNCHANGED write_pos

SpecLoad == InitLoad /\ [][NextLoad]_vars

(* ----------------------- the write of the file, in steps --------------- *)

\* json.loads on a file that was cut short
DecodeError ==
    [op |-> "init", err |-> "JSONDecodeError", msg |-> "Expecting value", id |-> 0]

InitWrite == Init /\ storage_path = Path

\* write_text opens the file for writing, which empties it, before it writes
opens_file == write_pos = None /\ write_pos' = IF result'.err = "none" THEN Some(0) ELSE None

\* write_text puts the next item of the document into the file
write_item ==
    /\ write_pos # None
    /\ result # DecodeError
    /\ write_pos[1] < Len(store.doc)
    /\ write_pos' = Some(write_pos[1] + 1)
    /\ UNCHANGED <<storage_path, tasks, next_id, store, now, result, returned,
                   issued, add_count, constructed_empty, seen_max>>

\* write_text has written the whole document and closes the file
write_close ==
    /\ write_pos # None
    /\ result # DecodeError
    /\ write_pos[1] = Len(store.doc)
    /\ write_pos' = None
    /\ UNCHANGED <<storage_path, tasks, next_id, store, now, result, returned,
                   issued, add_count, constructed_empty, seen_max>>

\* the process is stopped inside write_text and the next one reads the file
\* as it was left: _load fails in json.loads
construct_after_interrupt ==
    /\ write_pos # None
    /\ tasks' = <<>>
    /\ next_id' = 1
    /\ result' = DecodeError
    /\ returned' = None
    /\ add_count' = 0
    /\ constructed_empty' = TRUE
    /\ seen_max' = 0
    /\ UNCHANGED <<storage_path, store, now, issued, write_pos>>

NextWrite ==
    \/ construct /\ write_pos = None /\ UNCHANGED write_pos
    \/ (\E title \in Titles : add_task(title)) /\ opens_file
    \/ (\E task_id \in TaskIds : mark_completed(task_id)) /\ opens_file
    \/ clear /\ opens_file
    \/ (\E task_id \in TaskIds, title \in Titles : update_task(task_id, title))
          /\ opens_file
    \/ write_item
    \/ write_close
    \/ construct_after_interrupt
    \/ tick /\ UNCHANGED write_pos

SpecWrite == InitWrite /\ [][NextWrite]_vars

(* ------------------------------ the CLI -------------------------------- *)

\* the instance is the one main has just built from the file
Fresh ==
    /\ tasks = TodoList_load(storage_path, store).tasks
    /\ next_id = TodoList_load(storage_path, store).next_id

\* how main ends for the call it made: the `except ValueError` around
\* complete and update returns 1; a ValueError of any other call, and an
\* error of any other kind (OSError of a failed write), leaves main as an
\* exception
main_outcome(r) ==
    IF r.err = "none"
    THEN [returns |-> TRUE, status |-> 0, stderr |-> ""]
    ELSE IF r.err = "ValueError" /\ r.op \in {"mark_completed", "update_task"}
         THEN [returns |-> TRUE, status |-> 1, stderr |-> r.msg]
         ELSE [returns |-> FALSE, status |-> 1, stderr |-> "Traceback"]

InitCli == Init /\ storage_path = Path

NextCli ==
    \/ construct /\ UNCHANGED write_pos
    \/ Fresh /\ (\E title \in Titles : add_task(title)) /\ UNCHANGED write_pos
    \/ Fresh /\ list_tasks /\ UNCHANGED write_pos
    \/ Fresh /\ (\E task_id \in TaskIds : mark_completed(task_id))
          /\ UNCHANGED write_pos
    \/ Fresh /\ (\E task_id \in TaskIds, title \in Titles : update_task(task_id, title))
          /\ UNCHANGED write_pos
    \/ Fresh /\ clear /\ UNCHANGED write_pos
    \/ tick /\ UNCHANGED write_pos

SpecCli == InitCli /\ [][NextCli]_vars

(* --------------------------- writes that fail -------------------------- *)

\* write_text raised: the file could not be opened for writing
SaveFailed(op) ==
    [op |-> op, err |-> "OSError", msg |-> "Permission denied", id |-> 0]

add_task_save_fails(title) ==
    /\ ~title_is_blank(title)
    /\ next_id <= MaxId
    /\ tasks' = Append(tasks, Task(next_id, strip(title), now))
    /\ next_id' = next_id + 1
    /\ result' = SaveFailed("add_task")
    /\ returned' = None
    /\ seen_max' = IF next_id > seen_max THEN next_id ELSE seen_max
    /\ UNCHANGED <<storage_path, store, now, issued, add_count, constructed_empty>>

mark_completed_save_fails(task_id) ==
    LET i == TodoList_find_task_by_id(tasks, task_id)
    IN  /\ i # 0
        /\ tasks' = [tasks EXCEPT ![i] = Task_mark_completed(tasks[i], now)]
        /\ result' = SaveFailed("mark_completed")
        /\ returned' = None
        /\ UNCHANGED <<storage_path, next_id, store, now, issued, add_count,
                       constructed_empty, seen_max>>

clear_save_fails ==
    /\ tasks' = <<>>
    /\ result' = SaveFailed("clear")
    /\ returned' = None
    /\ UNCHANGED <<storage_path, next_id, store, now, issued, add_count,
                   constructed_empty, seen_max>>

update_task_save_fails(task_id, title) ==
    LET i == TodoList_find_task_by_id(tasks, task_id)
    IN  /\ ~title_is_blank(title)
        /\ i # 0
        /\ tasks' = [tasks EXCEPT ![i].title = strip(title)]
        /\ result' = SaveFailed("update_task")
        /\ returned' = None
        /\ UNCHANGED <<storage_path, next_id, store, now, issued, add_count,
                       constructed_empty, seen_max>>

InitIO == Init /\ storage_path = Path

\* the CLI with a file that may refuse a write: main does not catch OSError,
\* so the instance whose write failed ends with its process
NextIO ==
    \/ construct /\ UNCHANGED write_pos
    \/ Fresh /\ (\E title \in Titles : add_task(title)) /\ UNCHANGED write_pos
    \/ Fresh /\ (\E task_id \in TaskIds : mark_completed(task_id))
          /\ UNCHANGED write_pos
    \/ Fresh /\ clear /\ UNCHANGED write_pos
    \/ Fresh /\ (\E task_id \in TaskIds, title \in Titles : update_task(task_id, title))
          /\ UNCHANGED write_pos
    \/ Fresh /\ (\E title \in Titles : add_task_save_fails(title))
          /\ UNCHANGED write_pos
    \/ Fresh /\ (\E task_id \in TaskIds : mark_completed_save_fails(task_id))
          /\ UNCHANGED write_pos
    \/ Fresh /\ clear_save_fails /\ UNCHANGED write_pos
    \/ Fresh /\ (\E task_id \in TaskIds, title \in Titles :
                   update_task_save_fails(task_id, title)) /\ UNCHANGED write_pos
    \/ tick /\ UNCHANGED write_pos

SpecIO == InitIO /\ [][NextIO]_vars

(* ------------------------------- claims -------------------------------- *)

Mutations == {"add_task", "mark_completed", "update_task", "clear"}

\* titles that are empty or hold nothing but whitespace
BlankTitles == {t \in Titles : \A i \in 1..Len(t) : t[i] = " "}

HasId(ts, task_id) == \E i \in 1..Len(ts) : ts[i].id = task_id

\* C1: in an instance that started with no tasks, the k-th successful add_task
\* returns id k and the counter stands at k + 1, whatever failed calls and
\* clear() calls came in between.
C1_KthAddReturnsK ==
    constructed_empty =>
        /\ next_id = add_count + 1
        /\ (result.op = "add_task" /\ result.err = "none" => result.id = add_count)

\* an instance that began empty hands out id MaxId after a clear() emptied it
C1_Witness ==
    /\ constructed_empty
    /\ result.op = "add_task"
    /\ result.err = "none"
    /\ result.id = MaxId
    /\ Len(tasks) = 1

\* C2: for a store-backed list the id counter never decreases and add_task
\* never returns an id that was handed out before, also when a new TodoList
\* is constructed from the store after a clear().
C2_IdsNeverReused ==
    [][storage_path # None =>
          /\ next_id' >= next_id
          /\ (result'.op = "add_task" /\ result'.err = "none"
                /\ Len(tasks') = Len(tasks) + 1
              => result'.id \notin issued)]_vars

\* C3: a new TodoList constructed from the store holds the same tasks in the
\* same order, field by field, and its counter is max(ids) + 1 (1 for no tasks).
C3_RoundTrip ==
    storage_path # None =>
        LET loaded == TodoList_load(storage_path, store)
        IN  /\ Len(loaded.tasks) = Len(tasks)
            /\ \A i \in 1..Len(tasks) :
                  /\ loaded.tasks[i].id = tasks[i].id
                  /\ loaded.tasks[i].title = tasks[i].title
                  /\ loaded.tasks[i].status = tasks[i].status
                  /\ loaded.tasks[i].created_at = tasks[i].created_at
                  /\ loaded.tasks[i].completed_at = tasks[i].completed_at
            /\ loaded.next_id = max_id(tasks) + 1

\* a stored list with a pending task and a task completed at a clock value
\* whose fraction is not zero
C3_Witness ==
    /\ storage_path # None
    /\ store.exists
    /\ \E i, j \in 1..Len(tasks) :
          /\ tasks[i].completed_at = None
          /\ tasks[j].completed_at # None
          /\ tasks[j].completed_at[1].us > 0
          /\ tasks[j].created_at.us = 0

\* the document that holds exactly the tasks ts, in order
HoldsSnapshotOf(doc, ts) ==
    /\ Len(doc) = Len(ts)
    /\ \A i \in 1..Len(ts) :
          /\ doc[i].id = JNumber(ts[i].id)
          /\ doc[i].title = JString(ts[i].title)
          /\ doc[i].status = JString(ts[i].status)
          /\ doc[i].created_at = JString(isoformat(ts[i].created_at))
          /\ IF ts[i].completed_at = None
             THEN doc[i].completed_at[1] = "null"
             ELSE doc[i].completed_at = JString(isoformat(ts[i].completed_at[1]))

\* C4: with a store configured, once a mutating operation has returned the
\* file exists, and whenever the file exists it holds the snapshot of the
\* complete in-memory sequence.
C4_StoreInSync ==
    storage_path # None =>
        /\ (result.op \in Mutations /\ result.err = "none" => store.exists)
        /\ (store.exists => HoldsSnapshotOf(store.doc, tasks))

\* clear() has just emptied a store-backed list and the file holds no task
C4_Witness ==
    /\ storage_path # None
    /\ result.op = "clear"
    /\ store.exists
    /\ tasks = <<>>
    /\ next_id > 2

\* C5: add_task and update_task with a blank title raise the validation
\* error and change neither the tasks, nor the counter, nor the store,
\* whether or not update_task's id exists.
C5_BlankTitleRejected ==
    [][result'.op \in {"add_task", "update_task"} => \A title \in BlankTitles :
          (add_task(title) \/ \E task_id \in TaskIds : update_task(task_id, title))
          => /\ result'.err = "ValueError"
             /\ result'.msg = "Task title cannot be empty"
             /\ UNCHANGED <<tasks, next_id, store>>]_vars

\* update_task was refused for its title on a list that holds tasks
C5_Witness ==
    /\ result.op = "update_task"
    /\ result.msg = "Task title cannot be empty"
    /\ Len(tasks) >= 2
    /\ store.exists

\* C6: mark_completed and update_task (with a good title) on an id no current
\* task has raise the not-found error and change neither the tasks, nor the
\* counter, nor the store.
C6_UnknownIdRejected ==
    [][result'.op \in {"mark_completed", "update_task"} => \A task_id \in TaskIds :
          ~HasId(tasks, task_id) =>
             ((mark_completed(task_id)
                 \/ \E title \in Titles \ BlankTitles : update_task(task_id, title))
              => /\ result'.err = "ValueError"
                 /\ result'.msg = "Task with id not found"
                 /\ UNCHANGED <<tasks, next_id, store>>)]_vars

\* mark_completed was refused for an id that clear() removed, on a list that
\* holds another task
C6_Witness ==
    /\ result.op = "mark_completed"
    /\ result.msg = "Task with id not found"
    /\ result.id \in issued
    /\ tasks # <<>>
    /\ ~HasId(tasks, result.id)

\* C7: the error for an unknown id is of another kind than the error for a
\* blank title.
C7_DistinctErrorKinds ==
    result.msg = "Task with id not found" => result.err # EmptyTitle(result.op).err

\* C8: completed_at is None on a new task and, once set, is never changed by
\* a later operation while the task is in the list.
C8_CompletedAtFixed ==
    [][\A i \in 1..Len(tasks') :
          IF i <= Len(tasks) /\ tasks[i].id = tasks'[i].id
          THEN tasks[i].completed_at # None
                  => tasks'[i].completed_at = tasks[i].completed_at
          ELSE tasks'[i].completed_at = None]_vars

\* C9: a task is pending when it is added and a completed task stays
\* completed while it is in the list.
C9_StatusOnlyForward ==
    [][\A i \in 1..Len(tasks') :
          IF i <= Len(tasks) /\ tasks[i].id = tasks'[i].id
          THEN tasks[i].status = "completed" => tasks'[i].status = "completed"
          ELSE tasks'[i].status = "pending"]_vars

\* update_task has just retitled a task that is completed
C9_Witness ==
    /\ result.op = "update_task"
    /\ result.err = "none"
    /\ \E i \in 1..Len(tasks) :
          /\ tasks[i].id = result.id
          /\ tasks[i].status = "completed"
          /\ tasks[i].title = <<"a", "a">>

\* C10: list_tasks hands out the tasks in order and changes nothing, and no
\* edit of the list it handed out changes the tasks, the counter or the store.
C10_ListIsACopy ==
    [][/\ list_tasks =>
             /\ returned'[1].list.items = tasks
             /\ UNCHANGED <<tasks, next_id, store>>
       /\ caller_edits_list =>
             /\ UNCHANGED <<tasks, next_id, store>>
             /\ list_tasks_value(tasks').items = tasks]_vars

\* the caller has changed the list it was given and the manager still holds
\* its two tasks
C10_Witness ==
    /\ returned # None
    /\ returned[1].edits > 0
    /\ returned[1].list.items # tasks
    /\ Len(tasks) >= 2
    /\ store.exists

\* C11: in every state the ids in the list are pairwise distinct and each is
\* below the counter, also right after a list was loaded from its snapshot.
C11_IdsUniqueBelowCounter ==
    /\ \A i, j \in 1..Len(tasks) : i # j => tasks[i].id # tasks[j].id
    /\ \A i \in 1..Len(tasks) : tasks[i].id < next_id

\* an instance has just loaded a snapshot whose ids do not start at 1
C11_Witness ==
    /\ result.op = "init"
    /\ store.exists
    /\ Len(tasks) = 2
    /\ tasks[1].id = 2

\* C13: clear() leaves no task in memory and, with a store, an empty
\* document in the file, keeps the counter, and any later successful add_task
\* of the instance returns an id above every id the instance had seen.
C13_ClearKeepsCounter ==
    [][/\ clear =>
             /\ Len(list_tasks_value(tasks').items) = 0
             /\ next_id' = next_id
             /\ (storage_path # None => store'.exists /\ store'.doc = <<>>)
       /\ (result'.op = "add_task" /\ result'.err = "none"
              /\ Len(tasks') = Len(tasks) + 1)
          => result'.id > seen_max]_vars

\* an instance that loaded a task and added another was cleared, and its
\* next add_task got the id after both
C13_Witness ==
    /\ ~constructed_empty
    /\ result.op = "add_task"
    /\ result.err = "none"
    /\ result.id = MaxId
    /\ store.exists
    /\ Len(store.doc) = 1
    /\ Len(tasks) = 1

\* r is title without its leading and trailing whitespace
IsTrimOf(r, title) ==
    /\ \E a, b \in 0..Len(title) :
          /\ a + b <= Len(title)
          /\ r = SubSeq(title, a + 1, Len(title) - b)
          /\ \A i \in 1..a : title[i] = " "
          /\ \A i \in (Len(title) - b + 1)..Len(title) : title[i] = " "
    /\ r # <<>> => r[1] # " " /\ r[Len(r)] # " "

\* C16: a successful add_task appends one task with the id the counter held,
\* the trimmed title, status pending and no completed_at, returns it, moves
\* the counter by one and leaves the earlier tasks where they were.
C16_AddAppendsOne ==
    [][result'.op = "add_task" => \A title \in Titles \ BlankTitles :
          add_task(title) =>
             /\ result'.err = "none"
             /\ result'.id = next_id
             /\ next_id' = next_id + 1
             /\ Len(tasks') = Len(tasks) + 1
             /\ SubSeq(tasks', 1, Len(tasks)) = tasks
             /\ tasks'[Len(tasks')].id = next_id
             /\ IsTrimOf(tasks'[Len(tasks')].title, title)
             /\ tasks'[Len(tasks')].status = "pending"
             /\ tasks'[Len(tasks')].completed_at = None
             /\ tasks'[Len(tasks')].created_at = now
             /\ \E i \in 1..Len(list_tasks_value(tasks').items) :
                   IsTrimOf(list_tasks_value(tasks').items[i].title, title)]_vars

\* add_task has just appended a task behind a completed one
C16_Witness ==
    /\ result.op = "add_task"
    /\ result.err = "none"
    /\ Len(tasks) >= 2
    /\ tasks[Len(tasks)].id = result.id
    /\ tasks[1].status = "completed"

\* C17: a successful mark_completed sets the task with that id to completed
\* with a completed_at, returns it, and changes nothing else of that task,
\* no other task, not the order and not the counter.
C17_MarkCompletedFrame ==
    [][result'.op = "mark_completed" => \A task_id \in TaskIds :
          (HasId(tasks, task_id) /\ mark_completed(task_id)) =>
             /\ result'.err = "none"
             /\ result'.id = task_id
             /\ next_id' = next_id
             /\ Len(tasks') = Len(tasks)
             /\ \A i \in 1..Len(tasks) :
                   IF tasks[i].id = task_id
                   THEN /\ tasks'[i].status = "completed"
                        /\ tasks'[i].completed_at # None
                        /\ tasks'[i].id = tasks[i].id
                        /\ tasks'[i].title = tasks[i].title
                        /\ tasks'[i].created_at = tasks[i].created_at
                   ELSE tasks'[i] = tasks[i]]_vars

\* mark_completed has just completed a task that was created earlier, next
\* to a task that is still pending
C17_Witness ==
    /\ result.op = "mark_completed"
    /\ result.err = "none"
    /\ \E i, j \in 1..Len(tasks) :
          /\ tasks[i].id = result.id
          /\ tasks[i].status = "completed"
          /\ Earlier(tasks[i].created_at, tasks[i].completed_at[1])
          /\ tasks[j].status = "pending"

\* C18: a successful update_task puts the trimmed title on the task with that
\* id, returns it, and changes nothing else of that task, no other task, not
\* the order and not the counter.
C18_UpdateFrame ==
    [][result'.op = "update_task" => \A task_id \in TaskIds, title \in Titles \ BlankTitles :
          (HasId(tasks, task_id) /\ update_task(task_id, title)) =>
             /\ result'.err = "none"
             /\ result'.id = task_id
             /\ next_id' = next_id
             /\ Len(tasks') = Len(tasks)
             /\ \A i \in 1..Len(tasks) :
                   IF tasks[i].id = task_id
                   THEN /\ IsTrimOf(tasks'[i].title, title)
                        /\ tasks'[i].id = tasks[i].id
                        /\ tasks'[i].status = tasks[i].status
                        /\ tasks'[i].created_at = tasks[i].created_at
                        /\ tasks'[i].completed_at = tasks[i].completed_at
                   ELSE tasks'[i] = tasks[i]]_vars

\* update_task has just retitled the first of two tasks, which is pending
C18_Witness ==
    /\ result.op = "update_task"
    /\ result.err = "none"
    /\ Len(tasks) >= 2
    /\ tasks[1].id = result.id
    /\ tasks[1].title = <<"a", "a">>
    /\ tasks[1].status = "pending"
    /\ tasks[2].status = "completed"

\* C20: every task is completed exactly when it has a completed_at, and its
\* title is not empty and has no whitespace at either end.
C20_TaskWellFormed ==
    \A i \in 1..Len(tasks) :
        /\ tasks[i].status = "completed" <=> tasks[i].completed_at # None
        /\ tasks[i].title # <<>>
        /\ tasks[i].title[1] # " "
        /\ tasks[i].title[Len(tasks[i].title)] # " "

\* an instance has just loaded a snapshot with a completed and a pending task
C20_Witness ==
    /\ result.op = "init"
    /\ store.exists
    /\ \E i, j \in 1..Len(tasks) :
          /\ tasks[i].status = "completed"
          /\ tasks[j].status = "pending"

\* the ids of a document, in order
DocIds(doc) == [i \in 1..Len(doc) |-> doc[i].id[2]]

\* the largest entry of a sequence of numbers, 0 for none
Largest(q) ==
    IF q = <<>> THEN 0
    ELSE CHOOSE m \in {q[i] : i \in 1..Len(q)} : \A i \in 1..Len(q) : m >= q[i]

\* C12: a list built on a store starts with the counter at the largest stored
\* id plus one (1 for no file or no task) and the tasks in stored order, and
\* the first add_task after that returns an id above every loaded id.
C12_LoadSetsCounter ==
    /\ result.op = "init" =>
          /\ next_id = Largest(DocIds(store.doc)) + 1
          /\ [i \in 1..Len(tasks) |-> tasks[i].id] = DocIds(store.doc)
    /\ (result.op = "add_task" /\ result.err = "none" /\ add_count = 1) =>
          \A i \in 1..(Len(tasks) - 1) : result.id > tasks[i].id

\* a list loaded a snapshot that held only id 2 and its first add_task
\* returned 3
C12_Witness ==
    /\ result.op = "add_task"
    /\ result.err = "none"
    /\ add_count = 1
    /\ Len(tasks) = 2
    /\ tasks[1].id = 2
    /\ result.id = 3

\* C14: whoever reads the file finds a complete snapshot, never a file that
\* is empty or cut short, also while a write is under way or was interrupted.
C14_SnapshotWriteAtomic ==
    /\ write_pos = None
    /\ result.err # "JSONDecodeError"

\* C15: main returns 0 for a call that succeeded, and for a call that raised
\* it returns a status other than 0 with the message on the error stream.
C15_MainReturnsStatus ==
    result.op # "init" =>
        /\ main_outcome(result).returns
        /\ main_outcome(result).status = 0 <=> result.err = "none"
        /\ result.err # "none" => main_outcome(result).stderr = result.msg

\* C19: a mutating call whose write fails leaves the tasks and the counter
\* as they were before the call.
C19_FailedSaveChangesNothing ==
    [][result'.err = "OSError" => UNCHANGED <<tasks, next_id>>]_vars

====
